---- MODULE Spec2Model ----
(***************************************************************************)
(* Uptime monitor (src/monitor.py): a polling run probes the configured    *)
(* pages, looks up the open downtime issue in the tracker, and reconciles  *)
(* the two: it notifies and opens an issue when a page is down and no      *)
(* issue is open, notifies and closes the issue when all pages are up and  *)
(* an issue is open, and does nothing otherwise.                           *)
(*                                                                         *)
(* The tracker (issues), the messaging service (notifications) and the     *)
(* clock (now) are the world outside the script.  Each run is a process    *)
(* with its own module constants and locals; calls[r] records the outward  *)
(* calls the run has made, in order.                                       *)
(***************************************************************************)
EXTENDS Integers, Sequences, FiniteSets, TLC

\* ---------------------------------------------------------------- bounds
\* Number of polling runs the scheduler starts in one behaviour.
MaxRuns == 2
\* Number of times the clock advances in one behaviour.
MaxTicks == 2
\* Longest target list given to check_system_status in SpecProbe.
MaxTargets == 3
\* Most whole days in a duration given to format_downtime in SpecFormat.
MaxDays == 1

\* ------------------------------------------------------------ time scale
\* Clock values count half seconds, so that durations have a fractional
\* part for int() to cut off.
Resolution == 2
\* The amounts by which the clock advances, in turn: 59.5 s, then
\* 90001.5 s (together 90061 s = 1d 1h 1m 1s), then 59.5 s again, ...
Deltas == <<119, 180003>>

\* --------------------------------------------------------- configuration
WEBSITES_TO_CHECK ==
    << "https://www.apollohospitals.com/",
       "https://www.apollohospitals.com/doctors/",
       "https://www.apollohospitals.com/health-library",
       "https://www.apollohospitals.com/centres-of-excellence" >>

DOWNTIME_ISSUE_TITLE == "Automated Alert: A Website Page is DOWN"

\* timedelta(hours=5, minutes=30), in clock units.
ist_offset == (5 * 3600 + 30 * 60) * Resolution

\* Python's None where a url is expected.
None == "None"

\* Process slots for polling runs.
Runs == {1, 2}

VARIABLES
    issues,          \* the tracker: sequence of issues, issue number = index
    notifications,   \* the messages given to send_whatsapp_notification, in order
    now,             \* the clock (UTC), in half seconds
    ticks,           \* how many times the clock has advanced
    started,         \* how many runs have been started
    pc,              \* pc[r]: where run r stands in the script
    run_no,          \* run_no[r]: ordinal of the run in slot r
    GITHUB_TOKEN,    \* GITHUB_TOKEN[r]: the token is present in r's environment
    ACCOUNT_SID,     \* ACCOUNT_SID[r]: present in r's environment
    AUTH_TOKEN,      \* AUTH_TOKEN[r]: present in r's environment
    urls,            \* urls[r]: the list given to check_system_status
    web,             \* web[r]: what the targets of urls[r] answer (SpecProbe)
    is_all_up,       \* is_all_up[r]
    failing_url,     \* failing_url[r]
    downtime_issue,  \* downtime_issue[r]: the issue found by the lookup
    now_utc,         \* now_utc[r] / up_at_utc[r]: the time read by the run
    calls,           \* calls[r]: outward calls made by run r
    event,           \* the event given to the relay handler
    relay_env,       \* the relay's environment: which credentials are present
    relay_calls,     \* the messaging-client calls made by the relay handler
    relay_returned,  \* what the relay handler returned
    downtime_arg,    \* the argument of format_downtime (SpecFormat)
    downtime_str     \* the string format_downtime returned (SpecFormat)

world == <<issues, notifications, now, ticks, started>>
env == <<GITHUB_TOKEN, ACCOUNT_SID, AUTH_TOKEN>>
locals == <<urls, web, is_all_up, failing_url, downtime_issue, now_utc>>
\* The relay handler and the call of format_downtime checked on its own:
\* no polling run touches them.
apart == <<event, relay_env, relay_calls, relay_returned, downtime_arg,
          downtime_str>>
vars == <<issues, notifications, now, ticks, started, pc, run_no,
          GITHUB_TOKEN, ACCOUNT_SID, AUTH_TOKEN, urls, web, is_all_up,
          failing_url, downtime_issue, now_utc, calls, event, relay_env,
          relay_calls, relay_returned, downtime_arg, downtime_str>>

\* ------------------------------------------------------------- utilities
\* One outward call: the operation, its string argument, the issue number
\* it addresses (0 if none) and whether it returned (FALSE: it raised).
Call(op, arg, number, ok) ==
    [op |-> op, arg |-> arg, number |-> number, ok |-> ok]

\* ------------------------------------------------------------ HTTP probe
\* What a target answers: a response with a status code, or a
\* requests.exceptions.RequestException (timeout, DNS, refused, TLS).
Response(status_code) == [raised |-> FALSE, status_code |-> status_code]
RequestException == [raised |-> TRUE, status_code |-> 0]

\* The answers considered in a polling run.
Responses == {Response(200), Response(404), RequestException}

\* The answers considered when check_system_status is checked alone: both
\* ends of the success range and their neighbours.
ProbeResponses ==
    {Response(c) : c \in {199, 200, 299, 300}} \cup {RequestException}

\* The answers of n targets, one per position of the list.
Webs(n, answers) == [1..n -> answers]

RECURSIVE check_from(_, _, _, _)
\* The loop of check_system_status from position i on; requests are the
\* urls requested so far.
check_from(us, w, i, requests) ==
    IF i > Len(us)
    THEN [is_all_up |-> TRUE, failing_url |-> None, requests |-> requests]
    ELSE LET url == us[i]
             response == w[i]
         IN  IF response.raised
             THEN [is_all_up |-> FALSE, failing_url |-> url,
                   requests |-> Append(requests, url)]
             ELSE IF ~(200 <= response.status_code /\ response.status_code < 300)
             THEN [is_all_up |-> FALSE, failing_url |-> url,
                   requests |-> Append(requests, url)]
             ELSE check_from(us, w, i + 1, Append(requests, url))

RECURSIVE check_from_exclusive(_, _, _, _)
check_from_exclusive(us, w, i, requests) ==
    IF i > Len(us)
    THEN [is_all_up |-> TRUE, failing_url |-> None, requests |-> requests]
    ELSE IF w[i].raised \/ ~(200 < w[i].status_code /\ w[i].status_code < 300)
    THEN [is_all_up |-> FALSE, failing_url |-> us[i],
          requests |-> Append(requests, us[i])]
    ELSE check_from_exclusive(us, w, i + 1, Append(requests, us[i]))

\* Variant: the success range excludes 200.
check_system_status_exclusive(us, w) == check_from_exclusive(us, w, 1, <<>>)

\* Variant: the loop does not stop at the first failing target; every
\* target is requested and the first failing one is reported.
check_system_status_no_break(us, w) ==
    [check_from(us, w, 1, <<>>) EXCEPT !.requests = us]

\* check_system_status(urls) in a world where position i answers w[i].
check_system_status(us, w) == check_from(us, w, 1, <<>>)

\* --------------------------------------------------------------- tracker
Issue(number, title, state, created_at, body, comments) ==
    [number |-> number, title |-> title, state |-> state,
     created_at |-> created_at, body |-> body, comments |-> comments]

\* Body of an issue: the page it names and the time it states.
Body(url, at) == [url |-> url, at |-> at]

\* Python's None where an issue is expected.
NoIssue == Issue(0, "", "", 0, Body("", 0), <<>>)

RECURSIVE newest_first(_, _, _)
\* The issues of repo in the given state from number n down: the order in
\* which the tracker lists issues (newest first).
newest_first(repo, state, n) ==
    IF n = 0 THEN <<>>
    ELSE IF repo[n].state = state
         THEN <<repo[n]>> \o newest_first(repo, state, n - 1)
         ELSE newest_first(repo, state, n - 1)

\* repo.get_issues(state=...)
get_issues(repo, state) == newest_first(repo, state, Len(repo))

RECURSIVE first_titled(_, _, _)
\* The loop of manage_downtime_issue over the listing, from position i on.
first_titled(open_issues, title, i) ==
    IF i > Len(open_issues) THEN NoIssue
    ELSE IF open_issues[i].title = title THEN open_issues[i]
    ELSE first_titled(open_issues, title, i + 1)

\* Variant: only the first listed issue is looked at.
manage_downtime_issue_first_only(repo) ==
    LET open_issues == get_issues(repo, "open")
    IN  IF Len(open_issues) > 0 /\ open_issues[1].title = DOWNTIME_ISSUE_TITLE
        THEN open_issues[1]
        ELSE NoIssue

\* Variant: the first open issue counts, whatever its title.
manage_downtime_issue_any_title(repo) ==
    LET open_issues == get_issues(repo, "open")
    IN  IF Len(open_issues) > 0 THEN open_issues[1] ELSE NoIssue

\* manage_downtime_issue(repo): the first open issue with the canonical title.
manage_downtime_issue(repo) ==
    first_titled(get_issues(repo, "open"), DOWNTIME_ISSUE_TITLE, 1)

\* Variant: the tracker refuses a second open issue with the same title
\* (lookup and creation in one step).
create_issue_if_absent(repo, title, body, t) ==
    IF \E n \in 1..Len(repo) : repo[n].state = "open" /\ repo[n].title = title
    THEN repo
    ELSE Append(repo, Issue(Len(repo) + 1, title, "open", t, body, <<>>))

\* repo.create_issue(title, body) at time t.
create_issue(repo, title, body, t) ==
    Append(repo, Issue(Len(repo) + 1, title, "open", t, body, <<>>))

\* issue.create_comment(text) on issue number n.
create_comment(repo, n, text) ==
    [repo EXCEPT ![n].comments = Append(@, text)]

\* Variant: the edit reaches every issue with the title of issue n.
edit_all_titled(repo, n, state) ==
    [m \in 1..Len(repo) |->
        IF repo[m].title = repo[n].title
        THEN [repo[m] EXCEPT !.state = state]
        ELSE repo[m]]

\* Variant: the edit changes nothing.
edit_keeps_state(repo, n, state) == repo

\* issue.edit(state='closed') on issue number n.
edit(repo, n, state) == [repo EXCEPT ![n].state = state]

\* -------------------------------------------------------------- messages
\* int(x) of a non-negative duration given in clock units.
int(duration) == duration \div Resolution

\* t.strftime('%Y-%m-%d %H:%M:%S ...'): the time to the whole second.
strftime(t) == t \div Resolution

RECURSIVE lstrip(_)
lstrip(s) ==
    IF Len(s) > 0 /\ SubSeq(s, 1, 1) = " " THEN lstrip(SubSeq(s, 2, Len(s)))
    ELSE s

RECURSIVE rstrip(_)
rstrip(s) ==
    IF Len(s) > 0 /\ SubSeq(s, Len(s), Len(s)) = " "
    THEN rstrip(SubSeq(s, 1, Len(s) - 1))
    ELSE s

\* str.strip()
strip(s) == rstrip(lstrip(s))

\* Variant: a zero count of seconds is left out like the other units.
format_downtime_skips_zero(duration_seconds) ==
    LET seconds0 == int(duration_seconds)
        days == seconds0 \div 86400
        hours == (seconds0 % 86400) \div 3600
        minutes == (seconds0 % 3600) \div 60
        seconds == seconds0 % 60
        s1 == IF days > 0 THEN ToString(days) \o "d " ELSE ""
        s2 == IF hours > 0 THEN s1 \o ToString(hours) \o "h " ELSE s1
        s3 == IF minutes > 0 THEN s2 \o ToString(minutes) \o "m " ELSE s2
        s4 == IF seconds > 0 THEN s3 \o ToString(seconds) \o "s" ELSE s3
    IN  strip(s4)

\* format_downtime(duration_seconds), the duration in clock units.
format_downtime(duration_seconds) ==
    LET seconds0 == int(duration_seconds)
        days == seconds0 \div 86400
        rem1 == seconds0 % 86400
        hours == rem1 \div 3600
        rem2 == rem1 % 3600
        minutes == rem2 \div 60
        seconds == rem2 % 60
        s1 == IF days > 0 THEN ToString(days) \o "d " ELSE ""
        s2 == IF hours > 0 THEN s1 \o ToString(hours) \o "h " ELSE s1
        s3 == IF minutes > 0 THEN s2 \o ToString(minutes) \o "m " ELSE s2
        duration_str == s3 \o ToString(seconds) \o "s"
    IN  strip(duration_str)

\* Variant: the message names the first configured page, whichever failed.
down_message_first_page(url, t) ==
    [kind |-> "down", url |-> WEBSITES_TO_CHECK[1], at |-> strftime(t + ist_offset)]

\* The "down" message: the failing page and the local time of failure.
down_message(url, t) ==
    [kind |-> "down", url |-> url, at |-> strftime(t + ist_offset)]

\* Variant: the downtime is taken between the UTC down time and the local
\* recovery time.
recovery_message_local_up(down_at_utc, up_at_utc) ==
    [kind |-> "recovered",
     down_at |-> strftime(down_at_utc + ist_offset),
     up_at |-> strftime(up_at_utc + ist_offset),
     downtime |-> format_downtime((up_at_utc + ist_offset) - down_at_utc)]

\* The "recovered" message: local down and recovery times, total downtime.
recovery_message(down_at_utc, up_at_utc) ==
    [kind |-> "recovered",
     down_at |-> strftime(down_at_utc + ist_offset),
     up_at |-> strftime(up_at_utc + ist_offset),
     downtime |-> format_downtime(up_at_utc - down_at_utc)]

\* Variant: one credential is enough ("any" for "all").
send_outcomes_any(sid, auth) ==
    IF ~(sid \/ auth) THEN {"skipped"} ELSE {"sent", "failed"}

\* How send_whatsapp_notification can end: "skipped" when a credential is
\* missing; otherwise the client call returns ("sent") or raises and the
\* exception is caught ("failed").
send_outcomes(sid, auth) ==
    IF ~(sid /\ auth) THEN {"skipped"} ELSE {"sent", "failed"}

\* The messaging-client calls of one send_whatsapp_notification.
send_calls(outcome) ==
    IF outcome = "skipped" THEN <<>>
    ELSE <<Call("messages.create", "", 0, outcome = "sent")>>

\* ----------------------------------------------------------------- state
\* Trackers a behaviour may start from: empty; an open downtime issue
\* under a newer open issue with another title; a closed downtime issue
\* under a newer open issue with another title.
InitTrackers ==
    { <<>>,
      << Issue(1, DOWNTIME_ISSUE_TITLE, "open", 0,
               Body(WEBSITES_TO_CHECK[1], 0), <<>>),
         Issue(2, "Other", "open", 0, Body("", 0), <<>>) >>,
      << Issue(1, DOWNTIME_ISSUE_TITLE, "closed", 0,
               Body(WEBSITES_TO_CHECK[1], 0), <<0>>),
         Issue(2, "Other", "open", 0, Body("", 0), <<>>) >> }

\* No result: the relay handler has not returned.
NoResult == [statusCode |-> 0, body |-> ""]

\* The relay handler has not been called and format_downtime is not under
\* check.
ApartIdle ==
    /\ event = <<>>
    /\ relay_env = [account_sid |-> FALSE, auth_token |-> FALSE]
    /\ relay_calls = <<>>
    /\ relay_returned = NoResult
    /\ downtime_arg = 0
    /\ downtime_str = ""

\* A process slot with no run in it.
IdleRuns ==
    /\ pc = [r \in Runs |-> "idle"]
    /\ run_no = [r \in Runs |-> 0]
    /\ GITHUB_TOKEN = [r \in Runs |-> FALSE]
    /\ ACCOUNT_SID = [r \in Runs |-> FALSE]
    /\ AUTH_TOKEN = [r \in Runs |-> FALSE]
    /\ urls = [r \in Runs |-> <<>>]
    /\ web = [r \in Runs |-> <<>>]
    /\ is_all_up = [r \in Runs |-> FALSE]
    /\ failing_url = [r \in Runs |-> None]
    /\ downtime_issue = [r \in Runs |-> NoIssue]
    /\ now_utc = [r \in Runs |-> 0]
    /\ calls = [r \in Runs |-> <<>>]

Init ==
    /\ issues \in InitTrackers
    /\ notifications = <<>>
    /\ now = 0
    /\ ticks = 0
    /\ started = 0
    /\ IdleRuns
    /\ ApartIdle

\* No polling run is in progress.
NoRunActive == \A q \in Runs : pc[q] = "idle"

\* --------------------------------------------------------------- actions
\* The clock advances between two runs.
Tick ==
    /\ NoRunActive
    /\ ticks < MaxTicks
    /\ now' = now + Deltas[(ticks % Len(Deltas)) + 1]
    /\ ticks' = ticks + 1
    /\ UNCHANGED <<apart, issues, notifications, started, pc, run_no, env, locals, calls>>

\* Variant: the token is never found missing.
token_never_missing(token) == FALSE

\* Line 90: "if not GITHUB_TOKEN".
token_missing(token) == ~token

\* The scheduler starts a run in the lowest free slot.  The process reads
\* its environment (lines 8-11); without the token it prints and ends
\* (lines 90-91); with it, it gets the repository (lines 93-94), which may
\* raise.
Launch(r) ==
    /\ pc[r] = "idle"
    /\ \A q \in Runs : q < r => pc[q] # "idle"
    /\ started < MaxRuns
    /\ started' = started + 1
    /\ run_no' = [run_no EXCEPT ![r] = started + 1]
    /\ \E token \in BOOLEAN, sid \in BOOLEAN, auth \in BOOLEAN :
        /\ GITHUB_TOKEN' = [GITHUB_TOKEN EXCEPT ![r] = token]
        /\ ACCOUNT_SID' = [ACCOUNT_SID EXCEPT ![r] = sid]
        /\ AUTH_TOKEN' = [AUTH_TOKEN EXCEPT ![r] = auth]
        /\ IF token_missing(token)
           THEN /\ pc' = [pc EXCEPT ![r] = "done"]
                /\ UNCHANGED <<calls, urls>>
           ELSE \E ok \in BOOLEAN :
                /\ calls' = [calls EXCEPT ![r] = <<Call("get_repo", "", 0, ok)>>]
                /\ pc' = [pc EXCEPT ![r] = IF ok THEN "probe" ELSE "crashed"]
                /\ urls' = [urls EXCEPT ![r] = IF ok THEN WEBSITES_TO_CHECK ELSE @]
    /\ UNCHANGED <<apart, issues, notifications, now, ticks, web, is_all_up,
                   failing_url, downtime_issue, now_utc>>

\* Line 96: check_system_status(urls[r]) where the targets answer w.
Probe(r, w) ==
    /\ pc[r] = "probe"
    /\ LET result == check_system_status(urls[r], w)
       IN  /\ is_all_up' = [is_all_up EXCEPT ![r] = result.is_all_up]
           /\ failing_url' = [failing_url EXCEPT ![r] = result.failing_url]
           /\ calls' = [calls EXCEPT ![r] =
                  @ \o [i \in 1..Len(result.requests) |->
                          Call("requests.get", result.requests[i], 0, TRUE)]]
    /\ pc' = [pc EXCEPT ![r] = "lookup"]
    /\ UNCHANGED <<apart, world, run_no, env, urls, web, downtime_issue, now_utc>>

\* Line 96 in a run: the targets answer anything.
CheckSystemStatus(r) == \E w \in Webs(Len(urls[r]), Responses) : Probe(r, w)

\* Line 97: manage_downtime_issue(repo); listing the issues may raise.
ManageDowntimeIssue(r) ==
    /\ pc[r] = "lookup"
    /\ \E ok \in BOOLEAN :
        /\ calls' = [calls EXCEPT ![r] = Append(@, Call("get_issues", "open", 0, ok))]
        /\ IF ok
           THEN /\ downtime_issue' =
                       [downtime_issue EXCEPT ![r] = manage_downtime_issue(issues)]
                /\ pc' = [pc EXCEPT ![r] = "reconcile"]
           ELSE /\ pc' = [pc EXCEPT ![r] = "crashed"]
                /\ UNCHANGED downtime_issue
    /\ UNCHANGED <<apart, world, run_no, env, urls, web, is_all_up, failing_url, now_utc>>

\* send_whatsapp_notification(message_body) called by run r, ending in
\* outcome: the message handed over is recorded, and so is the client call
\* if one is made.
send_whatsapp_notification(r, message_body, outcome) ==
    /\ outcome \in send_outcomes(ACCOUNT_SID[r], AUTH_TOKEN[r])
    /\ notifications' = Append(notifications,
           [run |-> run_no[r], body |-> message_body])
    /\ calls' = [calls EXCEPT ![r] = @ \o send_calls(outcome)]

\* Lines 101-119: all pages are up and an issue is open: read the clock,
\* build the recovery message and send it.
NotifyRecovery(r) ==
    /\ pc[r] = "reconcile"
    /\ is_all_up[r]
    /\ downtime_issue[r] # NoIssue
    /\ now_utc' = [now_utc EXCEPT ![r] = now]
    /\ \E outcome \in {"skipped", "sent", "failed"} :
         send_whatsapp_notification(r,
             recovery_message(downtime_issue[r].created_at, now), outcome)
    /\ pc' = [pc EXCEPT ![r] = "comment"]
    /\ UNCHANGED <<apart, issues, now, ticks, started, run_no, env, urls, web,
                   is_all_up, failing_url, downtime_issue>>

\* Variant: a raised create_comment is swallowed and the run goes on to
\* close the issue.
CreateComment_swallows(r) ==
    /\ pc[r] = "comment"
    /\ \E ok \in BOOLEAN :
        /\ calls' = [calls EXCEPT ![r] =
               Append(@, Call("create_comment", "", downtime_issue[r].number, ok))]
        /\ issues' = IF ok
                     THEN create_comment(issues, downtime_issue[r].number,
                                         strftime(now_utc[r]))
                     ELSE issues
        /\ pc' = [pc EXCEPT ![r] = "close"]
    /\ UNCHANGED <<apart, notifications, now, ticks, started, run_no, env, locals>>

\* Line 120: downtime_issue.create_comment(...), which may raise.
CreateComment(r) ==
    /\ pc[r] = "comment"
    /\ \E ok \in BOOLEAN :
        /\ calls' = [calls EXCEPT ![r] =
               Append(@, Call("create_comment", "", downtime_issue[r].number, ok))]
        /\ issues' = IF ok
                     THEN create_comment(issues, downtime_issue[r].number,
                                         strftime(now_utc[r]))
                     ELSE issues
        /\ pc' = [pc EXCEPT ![r] = IF ok THEN "close" ELSE "crashed"]
    /\ UNCHANGED <<apart, notifications, now, ticks, started, run_no, env, locals>>

\* Lines 121-122: downtime_issue.edit(state='closed'), which may raise.
CloseIssue(r) ==
    /\ pc[r] = "close"
    /\ \E ok \in BOOLEAN :
        /\ calls' = [calls EXCEPT ![r] =
               Append(@, Call("edit", "closed", downtime_issue[r].number, ok))]
        /\ issues' = IF ok
                     THEN edit(issues, downtime_issue[r].number, "closed")
                     ELSE issues
        /\ pc' = [pc EXCEPT ![r] = IF ok THEN "done" ELSE "crashed"]
    /\ UNCHANGED <<apart, notifications, now, ticks, started, run_no, env, locals>>

\* Variant: every healthy run reports that the system is up.
StayUp_notifies(r) ==
    /\ pc[r] = "reconcile"
    /\ is_all_up[r]
    /\ downtime_issue[r] = NoIssue
    /\ \E outcome \in {"skipped", "sent", "failed"} :
         send_whatsapp_notification(r, recovery_message(now, now), outcome)
    /\ pc' = [pc EXCEPT ![r] = "done"]
    /\ UNCHANGED <<apart, issues, now, ticks, started, run_no, env, locals>>

\* Lines 101-102: all pages are up and no issue is open: nothing to do.
StayUp(r) ==
    /\ pc[r] = "reconcile"
    /\ is_all_up[r]
    /\ downtime_issue[r] = NoIssue
    /\ pc' = [pc EXCEPT ![r] = "done"]
    /\ UNCHANGED <<apart, world, run_no, env, locals, calls>>

\* Variant: the alert is not repeated when the last message handed over
\* was already a "down" message.
NotifyDown_dedup(r) ==
    /\ pc[r] = "reconcile"
    /\ ~is_all_up[r]
    /\ ~(downtime_issue[r] # NoIssue)
    /\ now_utc' = [now_utc EXCEPT ![r] = now]
    /\ IF Len(notifications) > 0
          /\ notifications[Len(notifications)].body.kind = "down"
       THEN UNCHANGED <<notifications, calls>>
       ELSE \E outcome \in {"skipped", "sent", "failed"} :
              send_whatsapp_notification(r, down_message(failing_url[r], now), outcome)
    /\ pc' = [pc EXCEPT ![r] = "create"]
    /\ UNCHANGED <<apart, issues, now, ticks, started, run_no, env, urls, web,
                   is_all_up, failing_url, downtime_issue>>

\* Lines 123-136: a page is down and no issue is open: read the clock,
\* build the down message and send it.
NotifyDown(r) ==
    /\ pc[r] = "reconcile"
    /\ ~is_all_up[r]
    /\ ~(downtime_issue[r] # NoIssue)
    /\ now_utc' = [now_utc EXCEPT ![r] = now]
    /\ \E outcome \in {"skipped", "sent", "failed"} :
         send_whatsapp_notification(r, down_message(failing_url[r], now), outcome)
    /\ pc' = [pc EXCEPT ![r] = "create"]
    /\ UNCHANGED <<apart, issues, now, ticks, started, run_no, env, urls, web,
                   is_all_up, failing_url, downtime_issue>>

\* Variant: the issue is created only when the alert was delivered.
CreateIssue_if_sent(r) ==
    /\ pc[r] = "create"
    /\ LET delivered == \E i \in 1..Len(calls[r]) :
                           calls[r][i].op = "messages.create" /\ calls[r][i].ok
       IN  /\ calls' = [calls EXCEPT ![r] =
                  IF delivered
                  THEN Append(@, Call("create_issue", DOWNTIME_ISSUE_TITLE, 0, TRUE))
                  ELSE @]
           /\ issues' = IF delivered
                        THEN create_issue(issues, DOWNTIME_ISSUE_TITLE,
                                 Body(failing_url[r], strftime(now_utc[r])), now)
                        ELSE issues
    /\ pc' = [pc EXCEPT ![r] = "done"]
    /\ UNCHANGED <<apart, notifications, now, ticks, started, run_no, env, locals>>

\* Lines 137-141: repo.create_issue(title, body), which may raise.
CreateIssue(r) ==
    /\ pc[r] = "create"
    /\ \E ok \in BOOLEAN :
        /\ calls' = [calls EXCEPT ![r] =
               Append(@, Call("create_issue", DOWNTIME_ISSUE_TITLE, 0, ok))]
        /\ issues' = IF ok
                     THEN create_issue(issues, DOWNTIME_ISSUE_TITLE,
                              Body(failing_url[r], strftime(now_utc[r])), now)
                     ELSE issues
        /\ pc' = [pc EXCEPT ![r] = IF ok THEN "done" ELSE "crashed"]
    /\ UNCHANGED <<apart, notifications, now, ticks, started, run_no, env, locals>>

\* Variant: the alert is repeated while the issue is open.
StillDown_renotifies(r) ==
    /\ pc[r] = "reconcile"
    /\ ~is_all_up[r]
    /\ downtime_issue[r] # NoIssue
    /\ \E outcome \in {"skipped", "sent", "failed"} :
         send_whatsapp_notification(r, down_message(failing_url[r], now), outcome)
    /\ pc' = [pc EXCEPT ![r] = "done"]
    /\ UNCHANGED <<apart, issues, now, ticks, started, run_no, env, locals>>

\* Lines 142-143: a page is down and an issue is open: only a log line.
StillDown(r) ==
    /\ pc[r] = "reconcile"
    /\ ~is_all_up[r]
    /\ downtime_issue[r] # NoIssue
    /\ pc' = [pc EXCEPT ![r] = "done"]
    /\ UNCHANGED <<apart, world, run_no, env, locals, calls>>

\* The process ends (the script ran to its end, or an exception ended it)
\* and its slot is free again.
Exit(r) ==
    /\ pc[r] \in {"done", "crashed"}
    /\ pc' = [pc EXCEPT ![r] = "idle"]
    /\ run_no' = [run_no EXCEPT ![r] = 0]
    /\ GITHUB_TOKEN' = [GITHUB_TOKEN EXCEPT ![r] = FALSE]
    /\ ACCOUNT_SID' = [ACCOUNT_SID EXCEPT ![r] = FALSE]
    /\ AUTH_TOKEN' = [AUTH_TOKEN EXCEPT ![r] = FALSE]
    /\ urls' = [urls EXCEPT ![r] = <<>>]
    /\ is_all_up' = [is_all_up EXCEPT ![r] = FALSE]
    /\ failing_url' = [failing_url EXCEPT ![r] = None]
    /\ downtime_issue' = [downtime_issue EXCEPT ![r] = NoIssue]
    /\ now_utc' = [now_utc EXCEPT ![r] = 0]
    /\ calls' = [calls EXCEPT ![r] = <<>>]
    /\ UNCHANGED <<apart, world, web>>

\* One step of the run in slot r.
Step(r) ==
    \/ CheckSystemStatus(r)
    \/ ManageDowntimeIssue(r)
    \/ NotifyRecovery(r)
    \/ CreateComment(r)
    \/ CloseIssue(r)
    \/ StayUp(r)
    \/ NotifyDown(r)
    \/ CreateIssue(r)
    \/ StillDown(r)
    \/ Exit(r)

\* Polling runs that do not overlap: a run starts only when none is in
\* progress.
Next ==
    \/ Tick
    \/ \E r \in Runs : NoRunActive /\ Launch(r)
    \/ \E r \in Runs : Step(r)

Spec == Init /\ [][Next]_vars

\* Polling runs that may overlap: the external scheduler starts a run
\* whether or not another one is in progress.
NextOverlap ==
    \/ Tick
    \/ \E r \in Runs : Launch(r)
    \/ \E r \in Runs : Step(r)

SpecOverlap == Init /\ [][NextOverlap]_vars

\* A tracker without an open issue titled DOWNTIME_ISSUE_TITLE.
InitNoIncident ==
    /\ Init
    /\ \A n \in 1..Len(issues) :
          ~(issues[n].state = "open" /\ issues[n].title = DOWNTIME_ISSUE_TITLE)

\* Non-overlapping runs in which no tracker call raises (a raised tracker
\* call is the only way a run crashes).
NextNoRaise ==
    \/ Tick
    \/ \E r \in Runs : NoRunActive /\ Launch(r) /\ pc'[r] # "crashed"
    \/ \E r \in Runs : CheckSystemStatus(r)
    \/ \E r \in Runs : ManageDowntimeIssue(r) /\ pc'[r] # "crashed"
    \/ \E r \in Runs : NotifyRecovery(r)
    \/ \E r \in Runs : CreateComment(r) /\ pc'[r] # "crashed"
    \/ \E r \in Runs : CloseIssue(r) /\ pc'[r] # "crashed"
    \/ \E r \in Runs : StayUp(r)
    \/ \E r \in Runs : NotifyDown(r)
    \/ \E r \in Runs : CreateIssue(r) /\ pc'[r] # "crashed"
    \/ \E r \in Runs : StillDown(r)
    \/ \E r \in Runs : Exit(r)

SpecNoRaise == InitNoIncident /\ [][NextNoRaise]_vars

\* Trackers with one or two open issues titled DOWNTIME_ISSUE_TITLE and no
\* closed one: an incident open next to another issue, and the two
\* incidents two overlapping runs created in an empty tracker.
OpenIncidentTrackers ==
    { << Issue(1, DOWNTIME_ISSUE_TITLE, "open", 0,
               Body(WEBSITES_TO_CHECK[1], 0), <<>>),
         Issue(2, "Other", "open", 0, Body("", 0), <<>>) >>,
      << Issue(1, DOWNTIME_ISSUE_TITLE, "open", 0,
               Body(WEBSITES_TO_CHECK[1], 0), <<>>),
         Issue(2, DOWNTIME_ISSUE_TITLE, "open", 0,
               Body(WEBSITES_TO_CHECK[2], 0), <<>>) >> }

InitOpenIncidents ==
    /\ issues \in OpenIncidentTrackers
    /\ notifications = <<>>
    /\ now = 0
    /\ ticks = 0
    /\ started = 0
    /\ IdleRuns
    /\ ApartIdle

\* A run is triggered while none is in progress; it has its token and
\* reaches the repository.
LaunchHealthy(r) == NoRunActive /\ Launch(r) /\ pc'[r] = "probe"

\* The steps of a run whose probes are all healthy and whose tracker calls
\* all return.
StepHealthy(r) ==
    \/ CheckSystemStatus(r) /\ is_all_up'[r]
    \/ ManageDowntimeIssue(r) /\ pc'[r] # "crashed"
    \/ NotifyRecovery(r)
    \/ CreateComment(r) /\ pc'[r] # "crashed"
    \/ CloseIssue(r) /\ pc'[r] # "crashed"
    \/ StayUp(r)
    \/ Exit(r)

NextHealthy ==
    \/ Tick
    \/ \E r \in Runs : LaunchHealthy(r)
    \/ \E r \in Runs : StepHealthy(r)

\* Runs keep being triggered (up to MaxRuns) and every run that has started
\* goes on to its end.
SpecHealthy ==
    /\ InitOpenIncidents
    /\ [][NextHealthy]_vars
    /\ WF_vars(\E r \in Runs : LaunchHealthy(r))
    /\ \A r \in Runs : WF_vars(StepHealthy(r))

\* ------------------------------------------- check_system_status alone
\* The urls that target lists are made of.
TargetPool == {WEBSITES_TO_CHECK[1], WEBSITES_TO_CHECK[2]}

\* Every target list of at most MaxTargets urls, repeats included.
TargetLists == UNION {[1..n -> TargetPool] : n \in 0..MaxTargets}

\* Slot 1 is about to call check_system_status on any target list, in a
\* world where each position of the list has its answer.
InitProbe ==
    /\ issues = <<>>
    /\ notifications = <<>>
    /\ now = 0
    /\ ticks = 0
    /\ started = 1
    /\ pc = [r \in Runs |-> IF r = 1 THEN "probe" ELSE "idle"]
    /\ run_no = [r \in Runs |-> IF r = 1 THEN 1 ELSE 0]
    /\ GITHUB_TOKEN = [r \in Runs |-> r = 1]
    /\ ACCOUNT_SID = [r \in Runs |-> FALSE]
    /\ AUTH_TOKEN = [r \in Runs |-> FALSE]
    /\ \E us \in TargetLists :
         /\ urls = [r \in Runs |-> IF r = 1 THEN us ELSE <<>>]
         /\ \E w \in Webs(Len(us), ProbeResponses) :
              web = [r \in Runs |-> IF r = 1 THEN w ELSE <<>>]
    /\ is_all_up = [r \in Runs |-> FALSE]
    /\ failing_url = [r \in Runs |-> None]
    /\ downtime_issue = [r \in Runs |-> NoIssue]
    /\ now_utc = [r \in Runs |-> 0]
    /\ calls = [r \in Runs |-> <<>>]
    /\ ApartIdle

\* check_system_status(urls[r]) in the world web[r].
ProbeGiven(r) == Probe(r, web[r])

NextProbe == \E r \in Runs : ProbeGiven(r)

SpecProbe == InitProbe /\ [][NextProbe]_vars

\* --------------------------------------------------- relay (send_alert.py)
\* d.get(key, default) on a mapping d.
get(d, key, default) == IF key \in DOMAIN d THEN d[key] ELSE default

\* Every mapping from a subset of keys to values.
Mappings(keys, values) == UNION {[ks -> values] : ks \in SUBSET keys}

\* Texts an alert field may carry, the empty text included.
FieldTexts == {"", "Apollo site", "is DOWN"}

\* The query-parameter mappings: each of the two fields present or not.
Payloads == Mappings({"monitorFriendlyName", "alertDetails"}, FieldTexts)

\* The inbound events: with or without the query-parameter mapping.
Events == {<<>>} \cup {[k \in {"queryStringParameters"} |-> p] : p \in Payloads}

\* Lines 18-23: the notification text for an event.
message_body(ev) ==
    LET payload == get(ev, "queryStringParameters", <<>>)
        monitor_name == get(payload, "monitorFriendlyName", "A monitor")
        alert_details == get(payload, "alertDetails", "changed status")
    IN  "Website Alert!\n\n" \o monitor_name \o " " \o alert_details \o "."

\* How the try block can end: Client(...) raises when a credential is
\* missing; otherwise messages.create returns or raises.
relay_outcomes(e) ==
    IF ~(e.account_sid /\ e.auth_token) THEN {"no client"} ELSE {"sent", "failed"}

\* The messaging-client calls of the try block, lines 26-31.
relay_client_calls(body, outcome) ==
    IF outcome = "no client"
    THEN <<Call("Client", "", 0, FALSE)>>
    ELSE <<Call("Client", "", 0, TRUE),
           Call("messages.create", body, 0, outcome = "sent")>>

\* Variant: the handler answers 200 whatever happened.
relay_result_always_ok(outcome) ==
    [statusCode |-> 200, body |-> "Message sent successfully."]

\* Lines 33-42: the structured result.
relay_result(outcome) ==
    IF outcome = "sent"
    THEN [statusCode |-> 200, body |-> "Message sent successfully."]
    ELSE [statusCode |-> 500, body |-> "Failed to send message."]

\* handler(event, context), lines 4-42.
handler ==
    /\ relay_returned = NoResult
    /\ \E outcome \in relay_outcomes(relay_env) :
        /\ relay_calls' = relay_calls \o relay_client_calls(message_body(event), outcome)
        /\ relay_returned' = relay_result(outcome)
    /\ UNCHANGED <<world, pc, run_no, env, locals, calls, event, relay_env,
                   downtime_arg, downtime_str>>

\* The webhook framework calls the handler with any event, in any
\* environment.
InitRelay ==
    /\ issues = <<>>
    /\ notifications = <<>>
    /\ now = 0
    /\ ticks = 0
    /\ started = 0
    /\ IdleRuns
    /\ event \in Events
    /\ relay_env \in [account_sid : BOOLEAN, auth_token : BOOLEAN]
    /\ relay_calls = <<>>
    /\ relay_returned = NoResult
    /\ downtime_arg = 0
    /\ downtime_str = ""

NextRelay == handler

SpecRelay == InitRelay /\ [][NextRelay]_vars

\* ----------------------------------------------- format_downtime alone
\* The durations given to format_downtime, in clock units: up to MaxDays
\* days, the hours, minutes and seconds each at 0, at 1 and at their
\* largest value, with every fraction of a second the clock can show.
Durations ==
    {(d * 86400 + h * 3600 + m * 60 + s) * Resolution + f :
        d \in 0..MaxDays, h \in {0, 1, 23}, m \in {0, 1, 59}, s \in {0, 1, 59},
        f \in 0..(Resolution - 1)}

\* format_downtime is about to be called on any of the durations.
InitFormat ==
    /\ issues = <<>>
    /\ notifications = <<>>
    /\ now = 0
    /\ ticks = 0
    /\ started = 0
    /\ IdleRuns
    /\ event = <<>>
    /\ relay_env = [account_sid |-> FALSE, auth_token |-> FALSE]
    /\ relay_calls = <<>>
    /\ relay_returned = NoResult
    /\ downtime_arg \in Durations
    /\ downtime_str = ""

\* Line 116: format_downtime(total_downtime.total_seconds()).
FormatDowntime ==
    /\ downtime_str = ""
    /\ downtime_str' = format_downtime(downtime_arg)
    /\ UNCHANGED <<world, pc, run_no, env, locals, calls, event, relay_env,
                   relay_calls, relay_returned, downtime_arg>>

NextFormat == FormatDowntime

SpecFormat == InitFormat /\ [][NextFormat]_vars

\* ============================================================ properties
\* Numbers of the open issues of repo that carry the canonical title.
OpenCanonical(repo) ==
    {n \in 1..Len(repo) :
        repo[n].state = "open" /\ repo[n].title = DOWNTIME_ISSUE_TITLE}

\* Positions in calls[r] of the calls of operation op.
Ops(r, op) == {i \in 1..Len(calls[r]) : calls[r][i].op = op}

\* Positions in calls[r] of the calls that change the tracker.
Mutations(r) ==
    Ops(r, "create_issue") \cup Ops(r, "create_comment") \cup Ops(r, "edit")

\* Run r has made no call that could change the tracker or send a message.
OnlyReads(r) == Mutations(r) = {} /\ Ops(r, "messages.create") = {}

\* Positions in notifications of the messages handed over by run r.
NotifiedBy(r) ==
    {i \in 1..Len(notifications) : notifications[i].run = run_no[r]}

\* The urls run r has requested, in order.
Requested(r) ==
    LET gets == SelectSeq(calls[r], LAMBDA c : c.op = "requests.get")
    IN  [i \in 1..Len(gets) |-> gets[i].arg]

\* Both messaging credentials are present in run r's environment.
HasCredentials(r) == ACCOUNT_SID[r] /\ AUTH_TOKEN[r]

\* C1: with non-overlapping runs, from a tracker with at most one open
\* issue titled DOWNTIME_ISSUE_TITLE, every reachable state has at most one
\* open issue with that title (whatever the probes, the notifications and
\* the tracker calls do).
C1_AtMostOneOpenIncident == Cardinality(OpenCanonical(issues)) <= 1

\* C1 witness: a run has opened an incident in a tracker that already held
\* an earlier downtime issue, now closed.
C1_Witness ==
    \E r \in Runs :
        /\ pc[r] = "done"
        /\ \E i \in Ops(r, "create_issue") : calls[r][i].ok
        /\ Cardinality(OpenCanonical(issues)) = 1
        /\ \E n \in 1..Len(issues) :
              issues[n].title = DOWNTIME_ISSUE_TITLE /\ issues[n].state = "closed"

\* C2: after every run that probed and completed without a tracker error,
\* an open canonical incident exists if and only if the run's probe result
\* was unhealthy.
C2_IncidentTracksHealth ==
    \A r \in Runs :
        (pc[r] = "done" /\ GITHUB_TOKEN[r])
            => (OpenCanonical(issues) # {} <=> ~is_all_up[r])

\* C2 witness: a healthy run has closed the incident that an earlier run of
\* the same behaviour opened.
C2_Witness ==
    \E r \in Runs :
        /\ pc[r] = "done"
        /\ is_all_up[r]
        /\ \E i \in Ops(r, "edit") : calls[r][i].ok
        /\ \E i \in 1..Len(notifications) :
              notifications[i].body.kind = "down" /\ notifications[i].run < run_no[r]
        /\ OpenCanonical(issues) = {}

\* Run r has looked up the downtime issue and the listing returned.
LookedUp(r) == \E i \in Ops(r, "get_issues") : calls[r][i].ok

\* Every create_issue call of run r returned and gave the canonical title.
CreatedBy(r) ==
    /\ Ops(r, "create_issue") # {}
    /\ \A i \in Ops(r, "create_issue") :
          calls[r][i].ok /\ calls[r][i].arg = DOWNTIME_ISSUE_TITLE

\* C3: in a run whose probe is unhealthy and whose lookup finds no open
\* canonical incident, there is never more than one create_issue call nor
\* more than one notification; when the run has completed, it has created
\* exactly one issue, open and canonically titled, and handed exactly one
\* message to send_whatsapp_notification, a "down" message; issue body and
\* message both name the failing url of this run's probe, the last url it
\* requested.
C3_DownTransition ==
    \A r \in Runs :
        (pc[r] \in {"create", "done", "crashed"} /\ LookedUp(r)
         /\ ~is_all_up[r] /\ downtime_issue[r] = NoIssue)
            => /\ Cardinality(Ops(r, "create_issue")) <= 1
               /\ Cardinality(NotifiedBy(r)) = 1
               /\ Cardinality(Ops(r, "messages.create")) <= 1
               /\ Ops(r, "create_comment") \cup Ops(r, "edit") = {}
               /\ \A i \in NotifiedBy(r) :
                     /\ notifications[i].body.kind = "down"
                     /\ notifications[i].body.url = failing_url[r]
               /\ failing_url[r] = Requested(r)[Len(Requested(r))]
               /\ pc[r] = "done" =>
                     /\ Cardinality(Ops(r, "create_issue")) = 1
                     /\ CreatedBy(r)
                     /\ OpenCanonical(issues) = {Len(issues)}
                     /\ issues[Len(issues)].body.url = failing_url[r]

\* C3 witness: a completed down transition on a page other than the first,
\* by a run that has both messaging credentials.
C3_Witness ==
    \E r \in Runs :
        /\ pc[r] = "done"
        /\ ~is_all_up[r]
        /\ downtime_issue[r] = NoIssue
        /\ failing_url[r] = WEBSITES_TO_CHECK[3]
        /\ HasCredentials(r)
        /\ \E i \in Ops(r, "messages.create") : calls[r][i].ok

\* C4: in a run whose probe is healthy and whose lookup finds an open
\* canonical incident, there is never more than one notification, comment
\* call or close call; when the run has completed, it has closed exactly
\* that incident, appended exactly one comment to it, and handed exactly
\* one message to send_whatsapp_notification, a "recovered" message whose
\* downtime is the formatted difference between the time the run read and
\* the creation time the tracker holds for that incident.
C4_RecoveryTransition ==
    \A r \in Runs :
        (pc[r] \in {"comment", "close", "done", "crashed"} /\ LookedUp(r)
         /\ is_all_up[r] /\ downtime_issue[r] # NoIssue)
            => LET n == downtime_issue[r].number
               IN  /\ Cardinality(NotifiedBy(r)) = 1
                   /\ Cardinality(Ops(r, "messages.create")) <= 1
                   /\ Cardinality(Ops(r, "create_comment")) <= 1
                   /\ Cardinality(Ops(r, "edit")) <= 1
                   /\ Ops(r, "create_issue") = {}
                   /\ \A i \in Ops(r, "create_comment") \cup Ops(r, "edit") :
                         calls[r][i].number = n
                   /\ issues[n].title = DOWNTIME_ISSUE_TITLE
                   /\ \A i \in NotifiedBy(r) :
                         /\ notifications[i].body.kind = "recovered"
                         /\ notifications[i].body.downtime =
                               format_downtime(now_utc[r] - issues[n].created_at)
                   /\ pc[r] = "done" =>
                         /\ Cardinality(Ops(r, "create_comment")) = 1
                         /\ Cardinality(Ops(r, "edit")) = 1
                         /\ \A i \in Mutations(r) : calls[r][i].ok
                         /\ issues[n].state = "closed"
                         /\ issues[n].comments =
                               Append(downtime_issue[r].comments, strftime(now_utc[r]))

\* C4 witness: a completed recovery of an incident that was created 90061
\* seconds before, reported as "1d 1h 1m 1s".
C4_Witness ==
    \E r \in Runs :
        /\ pc[r] = "done"
        /\ is_all_up[r]
        /\ downtime_issue[r] # NoIssue
        /\ issues[downtime_issue[r].number].state = "closed"
        /\ \E i \in NotifiedBy(r) :
              notifications[i].body.downtime = "1d 1h 1m 1s"

\* C5: a run whose probe is unhealthy and whose lookup finds an open
\* canonical incident has made only read calls so far, and its next step
\* ends it with the tracker, the notifications and its calls unchanged.
C5_StillDownIsNoOp ==
    [][\A r \in Runs :
          (pc[r] = "reconcile" /\ ~is_all_up[r] /\ downtime_issue[r] # NoIssue
           /\ pc'[r] # pc[r])
              => /\ OnlyReads(r)
                 /\ NotifiedBy(r) = {}
                 /\ pc'[r] = "done"
                 /\ issues' = issues
                 /\ notifications' = notifications
                 /\ calls'[r] = calls[r]]_vars

\* C5 witness: a run has ended in the still-down case.
C5_Witness ==
    \E r \in Runs :
        /\ pc[r] = "done"
        /\ LookedUp(r)
        /\ ~is_all_up[r]
        /\ downtime_issue[r] # NoIssue
        /\ downtime_issue[r] \in {issues[n] : n \in OpenCanonical(issues)}

\* C6: a run whose probe is healthy and whose lookup finds no open canonical
\* incident has made only read calls so far, and its next step ends it with
\* the tracker, the notifications and its calls unchanged.
C6_StayUpIsNoOp ==
    [][\A r \in Runs :
          (pc[r] = "reconcile" /\ is_all_up[r] /\ downtime_issue[r] = NoIssue
           /\ pc'[r] # pc[r])
              => /\ OnlyReads(r)
                 /\ NotifiedBy(r) = {}
                 /\ pc'[r] = "done"
                 /\ issues' = issues
                 /\ notifications' = notifications
                 /\ calls'[r] = calls[r]]_vars

\* C6 witness: a second consecutive run has ended in the steady healthy case.
C6_Witness ==
    \E r \in Runs :
        /\ pc[r] = "done"
        /\ LookedUp(r)
        /\ is_all_up[r]
        /\ downtime_issue[r] = NoIssue
        /\ run_no[r] = 2
        /\ notifications = <<>>
        /\ issues \in InitTrackers

\* A response in the success range.
Success(response) ==
    ~response.raised /\ response.status_code \in 200..299

\* C7: for every target list, the empty one included, whose targets all
\* answer with a status in [200,300), check_system_status returns
\* (True, None) after requesting every target once, in order.
C7_AllUp ==
    \A r \in Runs :
        (pc[r] = "lookup" /\ \A i \in 1..Len(urls[r]) : Success(web[r][i]))
            => /\ is_all_up[r]
               /\ failing_url[r] = None
               /\ Requested(r) = urls[r]

\* C7 witness: a list of two or more targets, all answering 200 or 299,
\* has been checked.
C7_Witness ==
    /\ pc[1] = "lookup"
    /\ Len(urls[1]) >= 2
    /\ \A i \in 1..Len(urls[1]) : Success(web[1][i])
    /\ web[1][1].status_code = 200
    /\ web[1][2].status_code = 299
    /\ is_all_up[1]

\* C8: for every target list whose first failing target (status outside
\* [200,300), or a network error) is at index i, check_system_status
\* returns (False, urls[i]) having requested exactly urls[1..i], each once
\* and in order.
C8_FirstFailure ==
    \A r \in Runs : \A i \in 1..Len(urls[r]) :
        (/\ pc[r] = "lookup"
         /\ ~Success(web[r][i])
         /\ \A j \in 1..(i - 1) : Success(web[r][j]))
            => /\ ~is_all_up[r]
               /\ failing_url[r] = urls[r][i]
               /\ Requested(r) = SubSeq(urls[r], 1, i)

\* C8 witness: the second of three targets failed with a network error
\* and a later target would have failed too.
C8_Witness ==
    /\ pc[1] = "lookup"
    /\ Len(urls[1]) = 3
    /\ Success(web[1][1])
    /\ web[1][2].raised
    /\ web[1][3].status_code = 300
    /\ failing_url[1] = urls[1][2]
    /\ Len(Requested(1)) = 2

\* C9: a run without the tracker token ends at once: it makes no call at
\* all (no probe, no tracker call, no messaging call), hands over no
\* notification, and no step taken while it exists changes the tracker or
\* the notifications.
C9_NoTokenAborts ==
    [][\A r \in Runs :
          /\ (pc'[r] # "idle" /\ ~GITHUB_TOKEN'[r])
                => /\ pc'[r] = "done"
                   /\ calls'[r] = <<>>
                   /\ NotifiedBy(r)' = {}
                   /\ issues' = issues
                   /\ notifications' = notifications]_vars

\* C9 witness: a run without the token has ended while an incident is open.
C9_Witness ==
    \E r \in Runs :
        /\ pc[r] = "done"
        /\ ~GITHUB_TOKEN[r]
        /\ calls[r] = <<>>
        /\ OpenCanonical(issues) # {}

\* C10: when a messaging credential is missing, send_whatsapp_notification
\* returns without a messaging-client call, and the run goes on to its
\* tracker mutation: it stops early only if a tracker call raises, and once
\* completed it has created the issue (down) or commented on and closed
\* the issue (recovery).
C10_MissingCredentials ==
    \A r \in Runs :
        (~HasCredentials(r) /\ NotifiedBy(r) # {})
            => /\ Ops(r, "messages.create") = {}
               /\ pc[r] \in {"create", "comment", "close", "done", "crashed"}
               /\ pc[r] = "crashed" =>
                     /\ Len(calls[r]) \in Mutations(r)
                     /\ ~calls[r][Len(calls[r])].ok
               /\ pc[r] = "done" =>
                     IF is_all_up[r]
                     THEN /\ \E i \in Ops(r, "create_comment") : calls[r][i].ok
                          /\ \E i \in Ops(r, "edit") : calls[r][i].ok
                          /\ issues[downtime_issue[r].number].state = "closed"
                     ELSE /\ \E i \in Ops(r, "create_issue") : calls[r][i].ok
                          /\ OpenCanonical(issues) # {}

\* C10 witness: a run with the account id but no auth token has completed
\* a down transition.
C10_Witness ==
    \E r \in Runs :
        /\ pc[r] = "done"
        /\ ACCOUNT_SID[r]
        /\ ~AUTH_TOKEN[r]
        /\ NotifiedBy(r) # {}
        /\ ~is_all_up[r]
        /\ \E i \in Ops(r, "create_issue") : calls[r][i].ok


\* The last call of run r.
LastCall(r) == calls[r][Len(calls[r])]

\* C11: the tracker mutation of a run does not depend on how the
\* notification ended.  The step that hands the message over leaves the
\* tracker unchanged and always moves the run on to its tracker call; each
\* tracker call then either returns, giving the tracker that follows from
\* the tracker before it and the run's probe result and lookup alone, or
\* raises, leaving the tracker as it was; and a run is ended early only by
\* a tracker call that raised, never by the messaging client.
C11_TrackerIgnoresDelivery ==
    [][\A r \in Runs :
          /\ (pc[r] = "reconcile" /\ pc'[r] # "reconcile")
                => /\ issues' = issues
                   /\ pc'[r] = IF is_all_up[r]
                               THEN (IF downtime_issue[r] # NoIssue
                                     THEN "comment" ELSE "done")
                               ELSE (IF downtime_issue[r] # NoIssue
                                     THEN "done" ELSE "create")
          /\ (pc[r] = "create" /\ pc'[r] # "create")
                => /\ LastCall(r)'.op = "create_issue"
                   /\ pc'[r] = IF LastCall(r)'.ok THEN "done" ELSE "crashed"
                   /\ issues' = IF LastCall(r)'.ok
                                THEN Append(issues,
                                       Issue(Len(issues) + 1, DOWNTIME_ISSUE_TITLE,
                                             "open", now,
                                             Body(failing_url[r], now_utc[r] \div Resolution),
                                             <<>>))
                                ELSE issues
          /\ (pc[r] = "comment" /\ pc'[r] # "comment")
                => /\ LastCall(r)'.op = "create_comment"
                   /\ pc'[r] = IF LastCall(r)'.ok THEN "close" ELSE "crashed"
                   /\ issues' = IF LastCall(r)'.ok
                                THEN [issues EXCEPT ![downtime_issue[r].number].comments =
                                         Append(@, now_utc[r] \div Resolution)]
                                ELSE issues
          /\ (pc[r] = "close" /\ pc'[r] # "close")
                => /\ LastCall(r)'.op = "edit"
                   /\ pc'[r] = IF LastCall(r)'.ok THEN "done" ELSE "crashed"
                   /\ issues' = IF LastCall(r)'.ok
                                THEN [issues EXCEPT ![downtime_issue[r].number].state = "closed"]
                                ELSE issues
          /\ pc'[r] = "crashed" => LastCall(r)'.op # "messages.create"]_vars

\* C11 witness: the messaging client raised, and the run went on to create
\* the issue and completed.
C11_Witness ==
    \E r \in Runs :
        /\ pc[r] = "done"
        /\ \E i \in Ops(r, "messages.create") : ~calls[r][i].ok
        /\ \E i \in Ops(r, "create_issue") : calls[r][i].ok
        /\ OpenCanonical(issues) # {}


\* The text the relay must send for the current event: the two fields, or
\* their defaults where a field or the whole mapping is missing.
ExpectedAlert ==
    LET has(f) == /\ "queryStringParameters" \in DOMAIN event
                  /\ f \in DOMAIN event["queryStringParameters"]
        name == IF has("monitorFriendlyName")
                THEN event["queryStringParameters"]["monitorFriendlyName"]
                ELSE "A monitor"
        details == IF has("alertDetails")
                   THEN event["queryStringParameters"]["alertDetails"]
                   ELSE "changed status"
    IN  "Website Alert!\n\n" \o name \o " " \o details \o "."

\* Positions in relay_calls of the send attempts.
RelaySends == {i \in 1..Len(relay_calls) : relay_calls[i].op = "messages.create"}

RECURSIVE JoinSpaced(_)
\* The texts of a sequence, joined by single spaces.
JoinSpaced(parts) ==
    IF parts = <<>> THEN ""
    ELSE IF Len(parts) = 1 THEN parts[1]
    ELSE parts[1] \o " " \o JoinSpaced(Tail(parts))

\* A count with its unit, if the count is not zero.
UnitIfNonzero(count, unit) ==
    IF count # 0 THEN <<ToString(count) \o unit>> ELSE <<>>

\* d days, h hours, m minutes, s seconds: largest unit first, the zero
\* days, hours and minutes left out, the seconds always there.
Rendered(d, h, m, s) ==
    JoinSpaced(UnitIfNonzero(d, "d") \o UnitIfNonzero(h, "h")
                  \o UnitIfNonzero(m, "m") \o <<ToString(s) \o "s">>)

\* The whole seconds of the duration under check: floor(n).
WholeSeconds == downtime_arg \div Resolution

\* C13: for every duration n >= 0, format_downtime(n) is the rendering of
\* d days, h < 24 hours, m < 60 minutes and s < 60 seconds with
\* d*86400 + h*3600 + m*60 + s = floor(n), the day, hour and minute units
\* present exactly when nonzero and the seconds always; 90061 gives
\* "1d 1h 1m 1s", 59 gives "59s" and 0 gives "0s".
C13_FormatDowntime ==
    downtime_str # ""
        => /\ \E d \in 0..(MaxDays + 1), h \in 0..23, m \in 0..59 :
                LET s == WholeSeconds - (d * 86400 + h * 3600 + m * 60)
                IN  s \in 0..59 /\ downtime_str = Rendered(d, h, m, s)
           /\ WholeSeconds = 90061 => downtime_str = "1d 1h 1m 1s"
           /\ WholeSeconds = 59 => downtime_str = "59s"
           /\ WholeSeconds = 0 => downtime_str = "0s"

\* C13 witness: 90061 seconds and a fraction were formatted.
C13_Witness ==
    /\ downtime_arg = 90061 * Resolution + 1
    /\ downtime_str = "1d 1h 1m 1s"


\* Run r saw an unhealthy probe, found no open canonical incident, and has
\* completed after its create_issue call returned.
CreatedAfterEmptyLookup(r) ==
    /\ pc[r] = "done"
    /\ LookedUp(r)
    /\ ~is_all_up[r]
    /\ downtime_issue[r] = NoIssue
    /\ CreatedBy(r)

\* Run r saw an unhealthy probe, found no open canonical incident, has
\* handed over its "down" message and is about to call create_issue.
AboutToCreate(r) ==
    /\ pc[r] = "create"
    /\ ~is_all_up[r]
    /\ downtime_issue[r] = NoIssue
    /\ Cardinality(NotifiedBy(r)) = 1
    /\ \A i \in NotifiedBy(r) : notifications[i].body.kind = "down"

\* C14: with overlapping runs the lookup of a run is not atomic with its
\* issue creation.  A run is about to call create_issue only after an
\* unhealthy probe, an empty lookup and one "down" message; two runs can be
\* there together, and then no canonical incident is open yet; and a
\* create_issue call that returns adds one open canonical incident to
\* those already open, whether or not the other run has created one since
\* the lookup.  So the two creations leave two open canonical incidents
\* and two "down" messages.
C14_OverlapDuplicates ==
    /\ [](\A r \in Runs : pc[r] = "create" => AboutToCreate(r))
    /\ [](\A r, q \in Runs :
            (r # q /\ pc[r] = "create" /\ pc[q] = "create")
                => /\ OpenCanonical(issues) = {}
                   /\ NotifiedBy(r) # NotifiedBy(q))
    /\ [][\A r \in Runs :
            (pc[r] = "create" /\ pc'[r] = "done")
                => /\ Len(issues') = Len(issues) + 1
                   /\ OpenCanonical(issues')
                         = OpenCanonical(issues) \cup {Len(issues')}
                   /\ notifications' = notifications]_vars

\* C14 witness: two overlapping runs have both created an incident, and
\* the tracker shows two open canonical incidents and two "down" messages.
C14_Witness ==
    /\ \A r \in Runs : CreatedAfterEmptyLookup(r)
    /\ \A r \in Runs : Cardinality(NotifiedBy(r)) = 1
    /\ Cardinality(OpenCanonical(issues)) = 2
    /\ Len(notifications) = 2
    /\ \A i \in 1..2 : notifications[i].body.kind = "down"


\* Run r has made a call of operation op that returned.
Returned(r, op) == \E i \in Ops(r, op) : calls[r][i].ok

\* C15: in each transition run the tracker is mutated before the
\* notification is attempted: whenever a run has handed a message to
\* send_whatsapp_notification, it has already created the incident (a
\* "down" message) or already commented on and closed it (a "recovered"
\* message).
C15_MutatedBeforeNotified ==
    \A r \in Runs : \A i \in NotifiedBy(r) :
        IF notifications[i].body.kind = "down"
        THEN Returned(r, "create_issue")
        ELSE Returned(r, "create_comment") /\ Returned(r, "edit")


\* The operations that change the tracker.
MutationOps == {"create_issue", "create_comment", "edit"}

\* C16: a tracker mutation call that raises aborts the run at that point
\* and nothing is rolled back.  The step in which the call raises changes
\* neither the tracker nor the notifications and takes the run to its end;
\* the message the run handed over before stays in the notifications, and
\* when it is the close call that raises, the comment the run appended
\* stays on the issue.  A raised mutation call is always the last call of
\* its run: from then on the run makes no tracker or messaging call.
C16_MutationRaiseAborts ==
    [][\A r \in Runs :
        /\ (\E i \in Mutations(r) : ~calls[r][i].ok)
              => /\ pc[r] = "crashed"
                 /\ pc'[r] \in {"crashed", "idle"}
                 /\ calls'[r] \in {calls[r], <<>>}
                 /\ issues' = issues
                 /\ notifications' = notifications
        /\ (Len(calls'[r]) = Len(calls[r]) + 1
             /\ LastCall(r)'.op \in MutationOps /\ ~LastCall(r)'.ok)
              => /\ pc'[r] = "crashed"
                 /\ issues' = issues
                 /\ notifications' = notifications
                 /\ Cardinality(NotifiedBy(r)') = 1
                 /\ LastCall(r)'.op = "edit"
                       => LET n == downtime_issue[r].number
                          IN  /\ issues'[n].state = "open"
                              /\ issues'[n].comments =
                                    Append(downtime_issue[r].comments,
                                           strftime(now_utc[r]))
    ]_vars

\* C16 witness: the close call of a run raised after the run had handed
\* over its "recovered" message and appended its comment; the run is over,
\* the issue is still open and carries the comment.
C16_Witness ==
    \E r \in Runs :
        /\ pc[r] = "crashed"
        /\ LastCall(r).op = "edit" /\ ~LastCall(r).ok
        /\ \E i \in NotifiedBy(r) : notifications[i].body.kind = "recovered"
        /\ issues[downtime_issue[r].number].state = "open"
        /\ Len(issues[downtime_issue[r].number].comments)
              = Len(downtime_issue[r].comments) + 1


\* The kinds of the messages handed over so far, in order.
Kinds == [i \in 1..Len(notifications) |-> notifications[i].body.kind]

\* C17: over non-overlapping runs that start from a tracker without an open
\* canonical incident and in which no tracker call raises, the messages
\* handed over alternate "down", "recovered", "down", ...; a "down" message
\* is handed over only while no canonical incident is open, and between
\* runs a canonical incident is open exactly when the last message was
\* "down".
C17_NotificationsAlternate ==
    /\ \A i \in 1..Len(notifications) :
          Kinds[i] = IF i % 2 = 1 THEN "down" ELSE "recovered"
    /\ \A r \in Runs : pc[r] = "create" => OpenCanonical(issues) = {}
    /\ NoRunActive =>
          (OpenCanonical(issues) # {} <=> Len(notifications) % 2 = 1)

\* C17 witness: a "down" message by one run, then a "recovered" message
\* by the next run, which has closed the incident.
C17_Witness ==
    /\ Kinds = <<"down", "recovered">>
    /\ notifications[1].run # notifications[2].run
    /\ OpenCanonical(issues) = {}
    /\ \E r \in Runs : pc[r] = "done" /\ Returned(r, "edit")


\* Issue number n of repo is not an open issue with the canonical title.
NotTracked(repo, n) ==
    repo[n].title # DOWNTIME_ISSUE_TITLE \/ repo[n].state # "open"

\* C18: the lookup matches only open issues with exactly the canonical
\* title.  A lookup that returns finds an issue exactly when such an issue
\* exists, and what it finds is one of them; an unhealthy run goes on to
\* notify and create although other open issues or closed canonical issues
\* exist; and no step of any run changes an issue that has another title
\* or is closed.
C18_ExactOpenTitleLookup ==
    [][/\ \A r \in Runs :
            /\ (pc[r] = "lookup" /\ pc'[r] = "reconcile")
                  => /\ downtime_issue'[r] = NoIssue <=> OpenCanonical(issues) = {}
                     /\ downtime_issue'[r] # NoIssue
                           => /\ downtime_issue'[r].number \in OpenCanonical(issues)
                              /\ downtime_issue'[r] = issues[downtime_issue'[r].number]
            /\ (pc[r] = "reconcile" /\ pc'[r] # pc[r] /\ ~is_all_up[r]
                 /\ OpenCanonical(issues) = {})
                  => /\ pc'[r] = "create"
                     /\ Cardinality(NotifiedBy(r)') = 1
       /\ Len(issues') >= Len(issues)
       /\ \A n \in 1..Len(issues) : NotTracked(issues, n) => issues'[n] = issues[n]
    ]_vars

\* C18 witness: a run has created a new incident in a tracker that held a
\* closed issue with the canonical title and an open issue with another
\* title, both as they were.
C18_Witness ==
    \E r \in Runs :
        /\ pc[r] = "done"
        /\ CreatedBy(r)
        /\ Len(issues) = 3
        /\ issues[1].title = DOWNTIME_ISSUE_TITLE /\ issues[1].state = "closed"
        /\ issues[2].title # DOWNTIME_ISSUE_TITLE /\ issues[2].state = "open"
        /\ issues[2].comments = <<>>
        /\ OpenCanonical(issues) = {3}


\* The last message handed over was of the given kind, by a run before r.
LastNotifiedEarlier(r, kind) ==
    /\ Len(notifications) > 0
    /\ notifications[Len(notifications)].body.kind = kind
    /\ notifications[Len(notifications)].run < run_no[r]

\* C19: a transition run hands its message over before any tracker
\* mutation.  The step that hands the message over leaves the tracker as
\* it is and the run has made no mutation call yet; if the mutation then
\* raises, the tracker still shows the state before the transition (no
\* open canonical incident after a "down" message, the incident still open
\* after a "recovered" message); and a later run that finds the same
\* tracker state and the same probe result hands over a message of the
\* same kind again.
C19_NotifiedBeforeMutated ==
    [][\A r \in Runs :
        /\ NotifiedBy(r)' # NotifiedBy(r) /\ run_no'[r] = run_no[r]
              => /\ Mutations(r)' = {}
                 /\ issues' = issues
        /\ Mutations(r) # {} => NotifiedBy(r) # {}
        /\ (pc[r] = "create" /\ pc'[r] = "crashed")
              => /\ OpenCanonical(issues') = {}
                 /\ \A i \in NotifiedBy(r)' : Kinds'[i] = "down"
                 /\ NotifiedBy(r)' # {}
        /\ (pc[r] \in {"comment", "close"} /\ pc'[r] = "crashed")
              => /\ downtime_issue[r].number \in OpenCanonical(issues')
                 /\ \A i \in NotifiedBy(r)' : Kinds'[i] = "recovered"
                 /\ NotifiedBy(r)' # {}
        /\ (pc[r] = "reconcile" /\ pc'[r] # pc[r] /\ ~is_all_up[r]
             /\ downtime_issue[r] = NoIssue /\ LastNotifiedEarlier(r, "down"))
              => /\ Len(notifications') = Len(notifications) + 1
                 /\ Kinds'[Len(notifications')] = "down"
                 /\ notifications'[Len(notifications')].run = run_no[r]
        /\ (pc[r] = "reconcile" /\ pc'[r] # pc[r] /\ is_all_up[r]
             /\ downtime_issue[r] # NoIssue /\ LastNotifiedEarlier(r, "recovered"))
              => /\ Len(notifications') = Len(notifications) + 1
                 /\ Kinds'[Len(notifications')] = "recovered"
                 /\ notifications'[Len(notifications')].run = run_no[r]
    ]_vars

\* C19 witness: the create_issue call of the first run raised after its
\* "down" message; the second run found no open canonical incident and has
\* handed over a second "down" message.
C19_Witness ==
    /\ Kinds = <<"down", "down">>
    /\ notifications[1].run = 1
    /\ notifications[2].run = 2
    /\ OpenCanonical(issues) = {}
    /\ \E r \in Runs : pc[r] = "create" /\ run_no[r] = 2


\* The issues of repo with the canonical title, open or closed.
Canonical(repo) == {n \in 1..Len(repo) : repo[n].title = DOWNTIME_ISSUE_TITLE}

\* The largest element of a non-empty set of numbers.
Largest(S) == CHOOSE n \in S : \A m \in S : m <= n

\* C20: from a tracker with k >= 1 open canonical incidents (and no closed
\* one), with healthy probes and no raised tracker call, each run closes
\* exactly one open canonical incident, the first the listing returns (the
\* newest), and hands over exactly one "recovered" message, as long as one
\* is open; between runs the number still open is k less the number of
\* runs so far (or zero); it is zero exactly from the k-th run on, and it
\* eventually is zero for good.
C20_HealthyRunsDrain ==
    /\ [](NoRunActive =>
            LET k == Cardinality(Canonical(issues))
            IN  /\ Cardinality(OpenCanonical(issues))
                      = IF started < k THEN k - started ELSE 0
                /\ Len(notifications) = IF started < k THEN started ELSE k
                /\ \A i \in 1..Len(notifications) : Kinds[i] = "recovered"
                /\ OpenCanonical(issues) = {} <=> started >= k)
    /\ [][\A r \in Runs :
            (pc[r] = "close" /\ pc'[r] = "done")
               => /\ downtime_issue[r].number = Largest(OpenCanonical(issues))
                  /\ OpenCanonical(issues')
                        = OpenCanonical(issues) \ {downtime_issue[r].number}
                  /\ Cardinality(NotifiedBy(r)) = 1]_vars
    /\ <>[](OpenCanonical(issues) = {})

\* C20 witness: two healthy runs have closed the two open canonical
\* incidents of a race, the newer one first, each with one "recovered"
\* message.
C20_Witness ==
    /\ Cardinality(Canonical(issues)) = 2
    /\ OpenCanonical(issues) = {}
    /\ started = 2
    /\ Kinds = <<"recovered", "recovered">>
    /\ issues[2].comments # <<>> /\ issues[1].comments # <<>>
    /\ \E r \in Runs : pc[r] = "done" /\ downtime_issue[r].number = 1

====
